---- MODULE Spec2Model ----
(***************************************************************************)
(* TimeMirror (src/index.tsx, first variant, lines 1-623): the application *)
(* state, the upload handler, the per-year generation fan-out of           *)
(* handleGenerate, the view produced by updateUI and the resize handler.   *)
(* The second variant (lines 625-1099) is modelled next to it, on its own   *)
(* variables and with its own specification, SpecVariant2.                 *)
(*                                                                         *)
(* One action is one browser task together with the microtasks it drains:  *)
(* the continuation of `await Promise.all(...)` runs in the same task as   *)
(* the settlement of the last of the five requests.                        *)
(*                                                                         *)
(* Strings are modelled as sequences of tokens, so that split/join/        *)
(* template literals are computed and can be inspected.                    *)
(***************************************************************************)
EXTENDS Naturals, Integers, Sequences, FiniteSets, TLC

----------------------------------------------------------------------------
(* Bounds of the model *)

MaxUploads == 2
MaxRuns == 2
MaxSliderMoves == 1

----------------------------------------------------------------------------
(* Program constants *)

Years == <<2030, 2040, 2050, 2060, 2070>>

YearSet == {Years[i] : i \in 1..Len(Years)}

FactorKeys == {"smoking", "sunExposure", "stress"}

Threshold == 5

SliderMin == 0

SliderMax == 10

DefaultFactors == [smoking |-> 0, sunExposure |-> 2, stress |-> 3]

ValidationError == "Please upload an image first."

GeneralError == "An unexpected error occurred. Please try again."

\* errorMessage: string | null
NoError == "null"

\* null / undefined for optional values: a value v is present as <<v>>
Null == <<>>

RunIds == 1..MaxRuns

----------------------------------------------------------------------------
(* Inputs: the files a user can select, the slider positions a user sets,  *)
(* the responses the external API can give                                 *)

\* file.name as its '.'-separated segments, file.type, and the file's bytes
Files ==
    { [name |-> <<"me", "png">>, type |-> "image/png", bytes |-> "bytesA"],
      [name |-> <<"my", "photo", "jpeg">>, type |-> "image/jpeg", bytes |-> "bytesB"] }

SliderInputs == {5, 6}

----------------------------------------------------------------------------
(* String helpers *)

RECURSIVE Join(_, _)
\* Array.prototype.join on an array of token sequences
Join(parts, sep) ==
    IF Len(parts) = 0 THEN <<>>
    ELSE IF Len(parts) = 1 THEN parts[1]
    ELSE parts[1] \o <<sep>> \o Join(Tail(parts), sep)

RECURSIVE ToDigits(_)
\* String(n) of a non-negative integer, as its decimal digits
ToDigits(n) ==
    IF n < 10 THEN <<n>> ELSE ToDigits(n \div 10) \o <<n % 10>>

RECURSIVE ParseInt(_)
\* parseInt(s, 10) of a string of decimal digits
ParseInt(s) ==
    IF Len(s) = 0 THEN 0
    ELSE 10 * ParseInt(SubSeq(s, 1, Len(s) - 1)) + s[Len(s)]

\* file.name.split('.').slice(0, -1).join('.')
BaseName(name) ==
    Join([i \in 1..(Len(name) - 1) |-> <<name[i]>>], ".")

\* FileReader.readAsDataURL: "data:<type>;base64,<payload>", split at ','
ReadAsDataURL(file) == << <<"data:", file.type, ";base64">>, file.bytes >>

----------------------------------------------------------------------------
(* Prompt builder *)

PromptHead == "Generate a single photorealistic image predicting how the person in the photo will look in the year "

PromptMid == ". - Key Instructions: ... - Lifestyle influence: The person has had "

PromptTail == ", which should subtly affect wrinkle intensity. - Output format: High-resolution PNG. - Safety: Ensure the output is positive and respectful."

SmokingClause == "a history of smoking"

SunClause == "significant sun exposure"

StressClause == "high levels of stress"

HealthyClause == "a healthy lifestyle"

\* a threshold test that also accepts the threshold itself
Exceeds_AtLeast(v) == v >= Threshold

\* factors.<key> > 5
Exceeds(v) == v > Threshold

\* the parts array after the three conditional pushes
PromptParts(factors) ==
    LET p1 == IF Exceeds(factors.smoking) THEN << <<SmokingClause>> >> ELSE <<>>
        p2 == IF Exceeds(factors.sunExposure) THEN Append(p1, <<SunClause>>) ELSE p1
        p3 == IF Exceeds(factors.stress) THEN Append(p2, <<StressClause>>) ELSE p2
    IN p3

FactorsText(factors) ==
    LET parts == PromptParts(factors)
    IN IF Len(parts) = 0 THEN <<HealthyClause>> ELSE Join(parts, ", ")

createPrompt(year, factors) ==
    <<PromptHead, year, PromptMid>> \o FactorsText(factors) \o <<PromptTail>>

\* the text between "The person has had " and ", which should ..."
LifestyleTextOf(prompt) == SubSeq(prompt, 4, Len(prompt) - 1)

----------------------------------------------------------------------------
(* State *)

VARIABLES
    uploadedImage,      \* UploadedImage | null
    lifestyleFactors,   \* LifestyleFactors
    isLoading,          \* boolean
    results,            \* ResultCard[]
    errorMessage,       \* string | null
    view,               \* what the last updateUI (or buildUI) left in the DOM
    listeners,          \* the DOM controls in the page carry init's listeners
    sliders,            \* value of the three range inputs in the page
    reading,            \* per file: the FileReaders of handleFile still reading it
    fileCount,          \* number of calls of handleFile so far
    lastSelected,       \* history: the file of the latest call of handleFile
    urlCount,           \* number of object URLs created; URL k is the k-th one
    revoked,            \* the URLs passed to URL.revokeObjectURL, in call order
    req,                \* per run and year: the request and its processing task
    join,               \* per run: the await of Promise.all in handleGenerate
    runCount,           \* number of runs started; the latest run has this id
    sliderMoves,        \* number of slider movements so far
    uploadSinceRun,     \* history: a reader.onload has run since the latest run began
    uploadedImageBase64,  \* second variant: string | null
    originalFileName,     \* second variant: string
    originalMimeType,     \* second variant: string
    page,                 \* second variant: the static page's elements
    placeholderElements,  \* second variant: the cards of the latest generateFutureImages
    lastCall            \* generateSingleImage called on its own: the answer and the result

appState == <<uploadedImage, lifestyleFactors, isLoading, results, errorMessage>>

domState == <<view, listeners, sliders>>

envState == <<reading, fileCount, lastSelected, urlCount, revoked, req, join, runCount, sliderMoves, uploadSinceRun>>

variant2State == <<uploadedImageBase64, originalFileName, originalMimeType, page,
                   placeholderElements>>

vars == <<appState, domState, envState, variant2State, lastCall>>

----------------------------------------------------------------------------
(* updateUI: the view as a function of the state *)

DownloadName(img, year) ==
    (IF img = Null THEN <<"undefined">> ELSE img[1].fileName) \o <<"_", year, ".png">>

RenderCard(card, img) ==
    IF card.status = "success"
    THEN [status |-> "success", year |-> card.year, src |-> card.imageUrl,
          download |-> DownloadName(img, card.year)]
    ELSE [status |-> card.status, year |-> card.year, src |-> Null, download |-> <<>>]

\* a button that updateUI never disables
ButtonDisabled_Never(loading) == FALSE

\* generateButton.disabled after updateUI
ButtonDisabled(loading) == loading

Render(img, loading, res, err) ==
    [ dropZoneHidden |-> img # Null,
      previewSrc     |-> IF img # Null THEN img[1].objectURL ELSE 0,
      controlsActive |-> img # Null,
      buttonDisabled |-> ButtonDisabled(loading),
      spinnerHidden  |-> ~loading,
      resultsActive  |-> loading \/ Len(res) > 0,
      errorText      |-> IF err # NoError THEN err ELSE "",
      timeline       |-> [i \in 1..Len(res) |-> RenderCard(res[i], img)] ]

\* the sliders as populateAndCreateDynamicElements creates them
BuiltSliders == [k \in FactorKeys |-> ToDigits(DefaultFactors[k])]

----------------------------------------------------------------------------
(* Initial state: module-level initialisers, then init() *)

\* outcome: the request's promise ("none": no request, "pending", "image": fulfilled
\* with image data, "failed": fulfilled with null or rejected); task: the promise
\* of the year's async task; prompt and image: what the request was sent
NoRequest == [outcome |-> "none", task |-> "none", prompt |-> <<>>, image |-> Null]

NoRun == [y \in YearSet |-> NoRequest]

\* second variant: the module-level initialisers and the static page
InitVariant2 ==
    /\ uploadedImageBase64 = Null
    /\ originalFileName = <<"generated_image">>
    /\ originalMimeType = "image/png"
    /\ page = [dropZoneHidden |-> FALSE, previewSrc |-> Null, controlsActive |-> FALSE,
               resultsActive |-> FALSE, spinnerHidden |-> TRUE, buttonDisabled |-> FALSE,
               errorActive |-> FALSE, errorText |-> "", timelineFilled |-> FALSE]
    /\ placeholderElements = <<>>

\* generateSingleImage has not been called on its own
NoCall == [called |-> FALSE, out |-> Null, result |-> Null]

Init ==
    /\ uploadedImage = Null
    /\ lifestyleFactors = DefaultFactors
    /\ isLoading = FALSE
    /\ results = <<>>
    /\ errorMessage = NoError
    /\ view = Render(Null, FALSE, <<>>, NoError)
    /\ listeners = TRUE
    /\ sliders = BuiltSliders
    /\ reading = [f \in Files |-> 0]
    /\ fileCount = 0
    /\ lastSelected = Null
    /\ urlCount = 0
    /\ revoked = <<>>
    /\ req = [r \in RunIds |-> NoRun]
    /\ join = [r \in RunIds |-> "none"]
    /\ runCount = 0
    /\ sliderMoves = 0
    /\ uploadSinceRun = FALSE
    /\ InitVariant2
    /\ lastCall = NoCall

----------------------------------------------------------------------------
(* handleFile and reader.onload *)

\* change / drop listener: the drop zone in the page is the one init wired,
\* and updateUI has not hidden it
CanSelectFile == listeners /\ ~view.dropZoneHidden

\* what reader.onload closes over: the file and the two constants of handleFile
Closure(file) ==
    [file |-> file, fileName |-> BaseName(file.name), mimeType |-> file.type]

HandleFile(file) ==
    /\ CanSelectFile
    /\ fileCount < MaxUploads
    /\ fileCount' = fileCount + 1
    /\ reading' = [reading EXCEPT ![file] = @ + 1]
    /\ lastSelected' = <<file>>
    /\ UNCHANGED <<appState, domState, urlCount, revoked, req, join, runCount,
                   sliderMoves, uploadSinceRun, variant2State, lastCall>>

\* an onload that never releases the previous preview URL
RevokedOnLoad_Never(img) == <<>>

\* if (uploadedImage?.objectURL) URL.revokeObjectURL(uploadedImage.objectURL)
RevokedOnLoad(img) ==
    IF img # Null THEN <<img[1].objectURL>> ELSE <<>>

\* an onload that leaves the cards of the previous image in place
ResultsAfterLoad_Kept(res) == res

\* results = []
ResultsAfterLoad(res) == <<>>

\* reader.onload of a reader of this file
ReadComplete(file) ==
    /\ reading[file] > 0
    /\ LET rd     == Closure(file)
           result == ReadAsDataURL(rd.file)
           img    == << [base64 |-> result[2], mimeType |-> rd.mimeType,
                         fileName |-> rd.fileName, objectURL |-> urlCount + 1] >>
           res    == ResultsAfterLoad(results)
       IN /\ revoked' = revoked \o RevokedOnLoad(uploadedImage)
          /\ urlCount' = urlCount + 1
          /\ uploadedImage' = img
          /\ results' = res
          /\ errorMessage' = NoError
          /\ view' = Render(img, isLoading, res, NoError)
    /\ reading' = [reading EXCEPT ![file] = @ - 1]
    /\ uploadSinceRun' = TRUE
    /\ UNCHANGED <<lifestyleFactors, isLoading, listeners, sliders, fileCount, lastSelected,
                   req, join, runCount, sliderMoves, variant2State, lastCall>>

----------------------------------------------------------------------------
(* generateSingleImage: one call of the external API *)

TextPart == [inlineData |-> Null]

ImagePart(data) == [inlineData |-> << [data |-> data] >>]

\* the image the API derives from the image it was sent, for one year
GeneratedImage(request, year) ==
    <<"png", IF request.image = Null THEN "none" ELSE request.image[1].base64, year>>

\* response.candidates[0].content.parts, as the API may answer a request
Responses(request, year) ==
    { <<TextPart>>, <<TextPart, ImagePart(GeneratedImage(request, year))>> }

\* what the call can do: throw, or answer with parts
Outcomes(request, year) ==
    {[throws |-> TRUE, parts |-> <<>>, error |-> "ApiError"]}
        \cup {[throws |-> FALSE, parts |-> p, error |-> "none"] : p \in Responses(request, year)}

RECURSIVE FirstInline(_)
RECURSIVE FirstInline_Last(_)
\* a loop over the parts that keeps the last inline image it meets
FirstInline_Last(parts) ==
    IF Len(parts) = 0 THEN Null
    ELSE IF parts[Len(parts)].inlineData # Null
         THEN <<parts[Len(parts)].inlineData[1].data>>
    ELSE FirstInline_Last(SubSeq(parts, 1, Len(parts) - 1))

\* for (const part of parts) if (part.inlineData) return part.inlineData.data; return null
FirstInline(parts) ==
    IF Len(parts) = 0 THEN Null
    ELSE IF parts[1].inlineData # Null THEN <<parts[1].inlineData[1].data>>
    ELSE FirstInline(Tail(parts))

\* the promise generateSingleImage returns, once the call has settled
generateSingleImage(out) ==
    IF out.throws
    THEN [state |-> "rejected", value |-> <<out.error>>]
    ELSE [state |-> "fulfilled", value |-> FirstInline(out.parts)]

\* how the settled promise is recorded in req
OutcomeOf(single) ==
    IF single.state = "fulfilled" /\ single.value # Null THEN "image" ELSE "failed"

----------------------------------------------------------------------------
(* handleGenerate *)

\* a lookup that does not compare the year
FindIndex_First(res, year) == IF Len(res) > 0 THEN 1 ELSE 0

\* results.findIndex(r => r.year === year); 0 stands for -1
FindIndex(res, year) ==
    IF \E i \in 1..Len(res) : res[i].year = year
    THEN CHOOSE i \in 1..Len(res) :
            /\ res[i].year = year
            /\ \A j \in 1..(i - 1) : res[j].year # year
    ELSE 0

ImageUrl(base64Image) == <<"data:image/png;base64,", base64Image>>

\* SettledCard without the test of base64Image
SettledCard_NoNullCheck(card, value) ==
    [card EXCEPT !.status = "success",
                 !.imageUrl = ImageUrl(IF value # Null THEN value[1] ELSE <<"null">>)]

\* the card written when the awaited request is fulfilled
SettledCard(card, value) ==
    IF value # Null
    THEN [card EXCEPT !.status = "success", !.imageUrl = ImageUrl(value[1])]
    ELSE [card EXCEPT !.status = "error"]

\* the card written by the catch of the year's task
FailedCard(card) == [card EXCEPT !.status = "error"]

\* ProcessingTask without the try/catch around the await
ProcessingTask_NoCatch(res, year, single) ==
    LET idx == FindIndex(res, year)
    IN IF single.state = "fulfilled"
       THEN [results   |-> IF idx # 0 THEN [res EXCEPT ![idx] = SettledCard(@, single.value)]
                           ELSE res,
             refreshed |-> idx # 0,
             task      |-> "resolved"]
       ELSE [results |-> res, refreshed |-> FALSE, task |-> "rejected"]

\* ProcessingTask without the calls of updateUI
ProcessingTask_NoRefresh(res, year, single) ==
    LET idx == FindIndex(res, year)
    IN [results   |-> IF idx = 0 THEN res
                      ELSE IF single.state = "fulfilled"
                           THEN [res EXCEPT ![idx] = SettledCard(@, single.value)]
                           ELSE [res EXCEPT ![idx] = FailedCard(@)],
        refreshed |-> FALSE,
        task      |-> "resolved"]

\* the body of one year's async task after its await: the new results, whether
\* updateUI was called, and how the task's own promise settles
ProcessingTask(res, year, single) ==
    LET idx == FindIndex(res, year)
    IN IF single.state = "fulfilled"
       THEN [results   |-> IF idx # 0 THEN [res EXCEPT ![idx] = SettledCard(@, single.value)]
                           ELSE res,
             refreshed |-> idx # 0,
             task      |-> "resolved"]
       ELSE [results   |-> IF idx # 0 THEN [res EXCEPT ![idx] = FailedCard(@)] ELSE res,
             refreshed |-> idx # 0,
             task      |-> "resolved"]

\* a join that is fulfilled by the first task (Promise.race / Promise.any)
AllResolved_Any(run) == \E y \in YearSet : run[y].task = "resolved"

\* a join that is fulfilled only if every request returned an image
AllResolved_OnlyImages(run) ==
    \A y \in YearSet : run[y].task = "resolved" /\ run[y].outcome = "image"

\* Promise.all over the five tasks: fulfilled once every task is
AllResolved(run) == \A y \in YearSet : run[y].task = "resolved"

\* a run none of whose promises is pending any more
RunFinished(r) ==
    /\ join[r] # "awaiting"
    /\ \A y \in YearSet : req[r][y].outcome # "pending"

LoadingCards == [i \in 1..Len(Years) |-> [year |-> Years[i], status |-> "loading", imageUrl |-> Null]]

\* the click listener fires on the button that init wired, unless disabled
CanClickGenerate == listeners /\ ~view.buttonDisabled

\* a validation that never fails
MissingImage_Never(img) == FALSE

\* if (!uploadedImage)
MissingImage(img) == img = Null

GenerateWithoutImage ==
    /\ CanClickGenerate
    /\ MissingImage(uploadedImage)
    /\ errorMessage' = ValidationError
    /\ view' = Render(uploadedImage, isLoading, results, ValidationError)
    /\ UNCHANGED <<uploadedImage, lifestyleFactors, isLoading, results, listeners, sliders,
                   envState, variant2State, lastCall>>

\* a map over the years that leaves the last one out
DispatchedRequests_SkipLast(factors, img) ==
    [y \in YearSet |->
        IF y = Years[Len(Years)] THEN NoRequest
        ELSE [outcome |-> "pending", task |-> "pending",
              prompt |-> createPrompt(y, factors), image |-> img]]

\* a map that builds the prompts from the initial factors
DispatchedRequests_DefaultFactors(factors, img) ==
    [y \in YearSet |->
        [outcome |-> "pending", task |-> "pending",
         prompt |-> createPrompt(y, DefaultFactors), image |-> img]]

\* years.map(async (year) => ...): every year's task builds its prompt and calls
\* generateSingleImage before its first await
DispatchedRequests(factors, img) ==
    [y \in YearSet |->
        [outcome |-> "pending", task |-> "pending",
         prompt |-> createPrompt(y, factors), image |-> img]]

GenerateRun ==
    /\ CanClickGenerate
    /\ ~MissingImage(uploadedImage)
    /\ runCount < MaxRuns
    /\ LET r == runCount + 1
       IN /\ runCount' = r
          /\ req' = [k \in RunIds |->
                        IF k = r
                        THEN DispatchedRequests(lifestyleFactors, uploadedImage)
                        ELSE IF RunFinished(k) THEN NoRun ELSE req[k]]
          /\ join' = [k \in RunIds |->
                        IF k = r THEN "awaiting"
                        ELSE IF RunFinished(k) THEN "none" ELSE join[k]]
    /\ isLoading' = TRUE
    /\ errorMessage' = NoError
    /\ results' = LoadingCards
    /\ view' = Render(uploadedImage, TRUE, LoadingCards, NoError)
    /\ uploadSinceRun' = FALSE
    /\ UNCHANGED <<uploadedImage, lifestyleFactors, listeners, sliders, reading, fileCount,
                   lastSelected, urlCount,
                   revoked, sliderMoves, variant2State, lastCall>>

handleGenerate == GenerateWithoutImage \/ GenerateRun

\* the request of year y of run r settles with outcome out; the year's task runs
\* to its end, and so does handleGenerate when this settles its join
Settle(r, y, out) ==
    /\ req[r][y].outcome = "pending"
    /\ LET single  == generateSingleImage(out)
           t       == ProcessingTask(results, y, single)
           req1    == [req EXCEPT ![r][y] =
                          [@ EXCEPT !.outcome = OutcomeOf(single), !.task = t.task]]
           rejects == join[r] = "awaiting" /\ t.task = "rejected"
           fin     == join[r] = "awaiting" /\ (t.task = "rejected" \/ AllResolved(req1[r]))
           err1    == IF rejects THEN GeneralError ELSE errorMessage
           load1   == IF fin THEN FALSE ELSE isLoading
       IN /\ req' = req1
          /\ results' = t.results
          /\ errorMessage' = err1
          /\ isLoading' = load1
          /\ join' = [join EXCEPT ![r] = IF fin THEN "done" ELSE @]
          /\ view' = IF t.refreshed \/ fin
                     THEN Render(uploadedImage, load1, t.results, err1)
                     ELSE view
    /\ UNCHANGED <<uploadedImage, lifestyleFactors, listeners, sliders, reading, fileCount,
                   lastSelected, urlCount,
                   revoked, runCount, sliderMoves, uploadSinceRun, variant2State, lastCall>>

----------------------------------------------------------------------------
(* sliders and resize *)

\* the user moves a range input of the page; its input listener, if it has one,
\* stores the parsed value
SliderMove(key, v) ==
    /\ sliderMoves < MaxSliderMoves
    /\ sliderMoves' = sliderMoves + 1
    /\ sliders' = [sliders EXCEPT ![key] = ToDigits(v)]
    /\ lifestyleFactors' =
            IF listeners
            THEN [lifestyleFactors EXCEPT ![key] = ParseInt(ToDigits(v))]
            ELSE lifestyleFactors
    /\ UNCHANGED <<uploadedImage, isLoading, results, errorMessage, view, listeners,
                   reading, fileCount, lastSelected, urlCount, revoked, req, join,
                   runCount, uploadSinceRun, variant2State, lastCall>>

\* a resize handler that rebuilds the page without restoring the cards
Resize_CardsLost ==
    /\ results' = <<>>
    /\ view' = Render(uploadedImage, isLoading, <<>>, errorMessage)
    /\ listeners' = FALSE
    /\ sliders' = BuiltSliders
    /\ UNCHANGED <<uploadedImage, lifestyleFactors, isLoading, errorMessage, envState,
                   variant2State, lastCall>>

\* window resize: buildUI(); addHoverEffects(); updateUI()
Resize ==
    /\ view' = Render(uploadedImage, isLoading, results, errorMessage)
    /\ listeners' = FALSE
    /\ sliders' = BuiltSliders
    /\ UNCHANGED <<appState, envState, variant2State, lastCall>>

----------------------------------------------------------------------------
(* The application *)

Next ==
    \/ \E f \in Files : HandleFile(f)
    \/ \E f \in Files : ReadComplete(f)
    \/ GenerateWithoutImage
    \/ GenerateRun
    \/ \E r \in RunIds : \E y \in YearSet : \E out \in Outcomes(req[r][y], y) : Settle(r, y, out)
    \/ Resize

Spec == Init /\ [][Next]_vars

\* the application with the sliders in use, up to the dispatch of the requests
NextSliders ==
    \/ \E f \in Files : HandleFile(f)
    \/ \E f \in Files : ReadComplete(f)
    \/ GenerateRun
    \/ \E k \in FactorKeys : \E v \in SliderInputs : SliderMove(k, v)
    \/ Resize

SpecSliders == Init /\ [][NextSliders]_vars

\* the application when the external API goes on answering: while requests
\* are pending, one of them eventually settles
RequestsSettle ==
    WF_vars(\E r \in RunIds : \E y \in YearSet :
                \E out \in Outcomes(req[r][y], y) : Settle(r, y, out))

NextLive ==
    \/ \E f \in Files : HandleFile(f)
    \/ \E f \in Files : ReadComplete(f)
    \/ GenerateRun
    \/ \E r \in RunIds : \E y \in YearSet : \E out \in Outcomes(req[r][y], y) : Settle(r, y, out)

SpecLive == Init /\ [][NextLive]_vars /\ RequestsSettle

----------------------------------------------------------------------------
(* The prompt builder over every slider setting: the sliders have been set   *)
(* to any values of their range before the image is uploaded and the run is *)
(* triggered                                                                *)

InitPrompt ==
    /\ lifestyleFactors \in [FactorKeys -> SliderMin..SliderMax]
    /\ sliders = [k \in FactorKeys |-> ToDigits(lifestyleFactors[k])]
    /\ uploadedImage = Null
    /\ isLoading = FALSE
    /\ results = <<>>
    /\ errorMessage = NoError
    /\ view = Render(Null, FALSE, <<>>, NoError)
    /\ listeners = TRUE
    /\ reading = [f \in Files |-> 0]
    /\ fileCount = 0
    /\ lastSelected = Null
    /\ urlCount = 0
    /\ revoked = <<>>
    /\ req = [r \in RunIds |-> NoRun]
    /\ join = [r \in RunIds |-> "none"]
    /\ runCount = 0
    /\ sliderMoves = 0
    /\ uploadSinceRun = FALSE
    /\ InitVariant2
    /\ lastCall = NoCall

NextPrompt ==
    \/ \E f \in Files : HandleFile(f)
    \/ \E f \in Files : ReadComplete(f)
    \/ GenerateRun

SpecPrompt == InitPrompt /\ [][NextPrompt]_vars

----------------------------------------------------------------------------
(* The second variant (src/index.tsx, lines 625-1099): the file's name and  *)
(* type are kept in two variables of their own, the bytes in a third, and   *)
(* the cards are DOM elements that each settlement fills in                 *)

\* the change / drop listeners reach handleFile while the drop zone is shown
CanSelectFile2 == ~page.dropZoneHidden

\* handleFile up to reader.readAsDataURL(file)
HandleFile2(file) ==
    /\ CanSelectFile2
    /\ fileCount < MaxUploads
    /\ originalFileName' = BaseName(file.name)
    /\ originalMimeType' = file.type
    /\ fileCount' = fileCount + 1
    /\ reading' = [reading EXCEPT ![file] = @ + 1]
    /\ lastSelected' = <<file>>
    /\ UNCHANGED <<appState, domState, urlCount, revoked, req, join, runCount,
                   sliderMoves, uploadSinceRun, uploadedImageBase64, page,
                   placeholderElements, lastCall>>

\* reader.onload of a reader of this file
ReadComplete2(file) ==
    /\ reading[file] > 0
    /\ LET result == ReadAsDataURL(file)
       IN /\ uploadedImageBase64' = <<result[2]>>
          /\ page' = [page EXCEPT !.previewSrc = <<result>>,
                                  !.dropZoneHidden = TRUE,
                                  !.controlsActive = TRUE,
                                  !.resultsActive = FALSE,
                                  !.timelineFilled = FALSE,
                                  !.errorActive = FALSE]
    /\ reading' = [reading EXCEPT ![file] = @ - 1]
    /\ uploadSinceRun' = TRUE
    /\ UNCHANGED <<appState, domState, fileCount, lastSelected, urlCount, revoked, req,
                   join, runCount, sliderMoves, originalFileName, originalMimeType,
                   placeholderElements, lastCall>>

\* the click listener of generateButton, which the browser skips while disabled
CanClickGenerate2 == ~page.buttonDisabled

\* showError('Please upload an image first.')
ClickWithoutImage2 ==
    /\ CanClickGenerate2
    /\ uploadedImageBase64 = Null
    /\ page' = [page EXCEPT !.errorText = ValidationError, !.errorActive = TRUE]
    /\ UNCHANGED <<appState, domState, envState, uploadedImageBase64, originalFileName,
                   originalMimeType, placeholderElements, lastCall>>

\* parseInt of the three range inputs of the page
getLifestyleFactors == [k \in FactorKeys |-> ParseInt(sliders[k])]

\* displayImagePlaceholder for each year
Placeholders ==
    [i \in 1..Len(Years) |->
        [year |-> Years[i], status |-> "loading", src |-> Null, download |-> <<>>]]

\* generateFutureImages up to its await of Promise.all
generateFutureImages ==
    /\ CanClickGenerate2
    /\ uploadedImageBase64 # Null
    /\ runCount < MaxRuns
    /\ LET r     == runCount + 1
           image == << [base64 |-> uploadedImageBase64[1], mimeType |-> originalMimeType] >>
       IN /\ runCount' = r
          /\ req' = [k \in RunIds |->
                        IF k = r THEN DispatchedRequests(getLifestyleFactors, image)
                        ELSE IF RunFinished(k) THEN NoRun ELSE req[k]]
          /\ join' = [k \in RunIds |->
                        IF k = r THEN "awaiting"
                        ELSE IF RunFinished(k) THEN "none" ELSE join[k]]
    /\ page' = [page EXCEPT !.resultsActive = TRUE,
                            !.spinnerHidden = FALSE,
                            !.timelineFilled = TRUE,
                            !.errorActive = FALSE,
                            !.buttonDisabled = TRUE]
    /\ placeholderElements' = Placeholders
    /\ uploadSinceRun' = FALSE
    /\ UNCHANGED <<appState, domState, reading, fileCount, lastSelected, urlCount, revoked,
                   sliderMoves, uploadedImageBase64, originalFileName, originalMimeType,
                   lastCall>>

\* populateImageCard: the image and its download link; fileName is the value of
\* originalFileName when the card is filled in
populateImageCard(card, base64Image, year, fileName) ==
    [card EXCEPT !.status = "success",
                 !.src = ImageUrl(base64Image),
                 !.download = fileName \o <<"_", year, ".png">>]

showCardError(card) == [card EXCEPT !.status = "error"]

\* index of a year in years; the task of index i holds placeholderElements[i]
IndexOf(year) == CHOOSE i \in 1..Len(Years) : Years[i] = year

\* the request of year y of run r settles: the year's task of
\* generateFutureImages runs to its end, and so does generateFutureImages when
\* this settles its join
Settle2(r, y, out) ==
    /\ req[r][y].outcome = "pending"
    /\ LET single == generateSingleImage(out)
           i      == IndexOf(y)
           req1   == [req EXCEPT ![r][y] =
                         [@ EXCEPT !.outcome = OutcomeOf(single), !.task = "resolved"]]
           fin    == join[r] = "awaiting" /\ AllResolved(req1[r])
       IN /\ req' = req1
          /\ placeholderElements' =
                [placeholderElements EXCEPT ![i] =
                    IF single.state = "fulfilled" /\ single.value # Null
                    THEN populateImageCard(@, single.value[1], y, originalFileName)
                    ELSE showCardError(@)]
          /\ join' = [join EXCEPT ![r] = IF fin THEN "done" ELSE @]
          /\ page' = IF fin
                     THEN [page EXCEPT !.spinnerHidden = TRUE, !.buttonDisabled = FALSE]
                     ELSE page
    /\ UNCHANGED <<appState, domState, reading, fileCount, lastSelected, urlCount, revoked,
                   runCount, sliderMoves, uploadSinceRun, uploadedImageBase64,
                   originalFileName, originalMimeType, lastCall>>

NextVariant2 ==
    \/ \E f \in Files : HandleFile2(f)
    \/ \E f \in Files : ReadComplete2(f)
    \/ ClickWithoutImage2
    \/ generateFutureImages
    \/ \E r \in RunIds : \E y \in YearSet : \E out \in Outcomes(req[r][y], y) : Settle2(r, y, out)

SpecVariant2 == Init /\ [][NextVariant2]_vars

----------------------------------------------------------------------------
(* generateSingleImage on its own, over every answer of up to MaxParts      *)
(* parts: text parts and image parts with two different payloads            *)

MaxParts == 4

ImageData == {"imageA", "imageB"}

PartChoices == {TextPart} \cup {ImagePart(data) : data \in ImageData}

\* ApiError: generateContent rejects; TypeError: the response has no candidate
\* and response.candidates[0].content throws inside the try
CallErrors == {"ApiError", "TypeError"}

ClientOutcomes ==
    {[throws |-> TRUE, parts |-> <<>>, error |-> e] : e \in CallErrors}
        \cup {[throws |-> FALSE, parts |-> p, error |-> "none"] :
                 p \in UNION {[1..n -> PartChoices] : n \in 0..MaxParts}}

\* one call of generateSingleImage that the API answers with out
ClientCall(out) ==
    /\ lastCall' = [called |-> TRUE, out |-> <<out>>, result |-> <<generateSingleImage(out)>>]
    /\ UNCHANGED <<appState, domState, envState, variant2State>>

NextClient == \E out \in ClientOutcomes : ClientCall(out)

SpecClient == Init /\ [][NextClient]_vars

----------------------------------------------------------------------------
(* Properties of the fan-out *)

ThrowOutcome == [throws |-> TRUE, parts |-> <<>>, error |-> "ApiError"]

Pending(r, y) == req[r][y].outcome = "pending"

RunSettled(r) == \A y \in YearSet : req[r][y].outcome \in {"image", "failed"}

\* the years of run r whose request threw or returned an empty result
FailedYears(r) == {y \in YearSet : req[r][y].outcome = "failed"}

\* C1: once all five requests of the latest run have settled, and no upload
\* has completed since the run began, the cards of the years whose request
\* threw or returned nothing are 'error', all other cards are 'success',
\* isLoading is false and the trigger is enabled again.
C1_FanOutIndependence ==
    (runCount > 0 /\ ~uploadSinceRun /\ RunSettled(runCount)) =>
        /\ Len(results) = Len(Years)
        /\ \A i \in 1..Len(Years) :
              /\ results[i].year = Years[i]
              /\ results[i].status =
                    IF Years[i] \in FailedYears(runCount) THEN "error" ELSE "success"
        /\ ~isLoading
        /\ ~view.buttonDisabled

\* a completed run in which exactly the request of 2050 failed
C1_Witness ==
    /\ runCount > 0 /\ ~uploadSinceRun /\ RunSettled(runCount)
    /\ FailedYears(runCount) = {2050}
    /\ results[3].status = "error"
    /\ \A i \in {1, 2, 4, 5} : results[i].status = "success"
    /\ ~isLoading

\* C2: a request that throws is caught in its own year's task: the task's
\* promise resolves (the join is not rejected), the general error message is
\* never set, the other requests of the run stay in flight with their cards
\* untouched, and the run goes on while any of them is pending.
C2_ThrowIsLocal ==
    /\ [](errorMessage # GeneralError)
    /\ [][\A r \in RunIds : \A y \in YearSet :
            (Pending(r, y) /\ Settle(r, y, ThrowOutcome)) =>
                /\ req'[r][y].task = "resolved"
                /\ errorMessage' = errorMessage
                /\ \A z \in YearSet \ {y} :
                      /\ req'[r][z] = req[r][z]
                      /\ FindIndex(results', z) = FindIndex(results, z)
                      /\ FindIndex(results, z) # 0 =>
                            results'[FindIndex(results, z)] = results[FindIndex(results, z)]
                /\ (\E z \in YearSet \ {y} : Pending(r, z)) =>
                      (isLoading' = isLoading /\ join'[r] = join[r])
         ]_vars

\* one request has thrown, its card is 'error', the other four are in flight
C2_Witness ==
    /\ runCount = 1 /\ ~uploadSinceRun /\ isLoading
    /\ req[1][2030].outcome = "failed"
    /\ \A y \in YearSet \ {2030} : Pending(1, y)
    /\ results[1].status = "error"
    /\ \A i \in 2..5 : results[i].status = "loading"

\* C3: a click on the trigger while no image is uploaded sets the validation
\* message (and shows it), starts no run, issues no request, and leaves
\* results and isLoading as they were.
C3_ValidationIssuesNoRequest ==
    [][(uploadedImage = Null /\ handleGenerate) =>
            /\ errorMessage' = ValidationError
            /\ view'.errorText = ValidationError
            /\ req' = req
            /\ runCount' = runCount
            /\ results' = results
            /\ isLoading' = isLoading
      ]_vars

\* the validation message is shown and nothing was requested
C3_Witness ==
    /\ uploadedImage = Null
    /\ errorMessage = ValidationError
    /\ view.errorText = ValidationError
    /\ runCount = 0
    /\ \A r \in RunIds : \A y \in YearSet : req[r][y].outcome = "none"

\* C4: isLoading stays true, and the trigger disabled, while any request of
\* the run is in flight; the step that sets isLoading to false leaves no
\* request in flight.
C4_LoadingUntilAllSettled ==
    /\ [](isLoading => view.buttonDisabled)
    /\ [][isLoading =>
            /\ (\E r \in RunIds : \E y \in YearSet : req'[r][y].outcome = "pending")
                  => isLoading'
            /\ ~isLoading'
                  => \A r \in RunIds : \A y \in YearSet : req'[r][y].outcome # "pending"
         ]_vars

\* four requests have settled, the fifth is in flight, the run is still loading
C4_Witness ==
    /\ runCount = 1 /\ isLoading /\ view.buttonDisabled
    /\ Pending(1, 2070)
    /\ \A y \in YearSet \ {2070} : req[1][y].outcome \in {"image", "failed"}

\* the outcome class of a settlement, as the card shows it
StatusFor(out) ==
    IF OutcomeOf(generateSingleImage(out)) = "image" THEN "success" ELSE "error"

\* in this step the request of year y of run r settles with outcome out while
\* the request of another year of the run is still in flight
SettlesBeforeOthers(r, y, out) ==
    /\ Pending(r, y)
    /\ \E z \in YearSet \ {y} : Pending(r, z)
    /\ Settle(r, y, out)

\* what the claim promises of such a step: the card of y is resolved in results
\* and in the refreshed view, every other card is as it was, and the cards of
\* the years still in flight are 'loading'
ResolvedIncrementally(r, y, out) ==
    LET i == FindIndex(results', y)
    IN /\ i # 0
       /\ Len(results') = Len(results)
       /\ results'[i].status = StatusFor(out)
       /\ Len(view'.timeline) = Len(results')
       /\ view'.timeline[i].status = StatusFor(out)
       /\ \A j \in 1..Len(results') : j # i =>
             /\ results'[j] = results[j]
             /\ view'.timeline[j] = view.timeline[j]
       /\ \A z \in YearSet \ {y} : Pending(r, z) =>
             /\ FindIndex(results', z) # 0
             /\ results'[FindIndex(results', z)].status = "loading"
             /\ view'.timeline[FindIndex(results', z)].status = "loading"

\* C5 as stated: whenever the request of year Y settles while that of year Z
\* is in flight, Y's card becomes resolved and is shown so in the same step,
\* with Z's card still 'loading', whatever the order of settlement.
C5_AsStated ==
    [][\A r \in RunIds : \A y \in YearSet : \A out \in Outcomes(req[r][y], y) :
            SettlesBeforeOthers(r, y, out) => ResolvedIncrementally(r, y, out)
      ]_vars

\* C5, amended: the same, provided no upload has completed since the run
\* began (an upload empties results, and the settlement then finds no card).
C5_IncrementalRendering ==
    [][\A r \in RunIds : \A y \in YearSet : \A out \in Outcomes(req[r][y], y) :
            (SettlesBeforeOthers(r, y, out) /\ ~uploadSinceRun)
                => ResolvedIncrementally(r, y, out)
      ]_vars

\* the last year dispatched is shown resolved while the first is still loading
C5_Witness ==
    /\ runCount > 0 /\ ~uploadSinceRun
    /\ Pending(runCount, 2030)
    /\ req[runCount][2070].outcome = "image"
    /\ view.timeline[5].status = "success"
    /\ view.timeline[1].status = "loading"

\* C6: while no new run is triggered, a card keeps its status or goes from
\* 'loading' to 'success' or 'error', a resolved card keeps its status (an
\* upload may remove the cards), and no request is issued.
C6_CardStateMachine ==
    [][runCount' = runCount =>
            /\ \A i \in 1..Len(results) : i <= Len(results') =>
                  \/ results'[i].status = results[i].status
                  \/ /\ results[i].status = "loading"
                     /\ results'[i].status \in {"success", "error"}
            /\ Len(results') \in {0, Len(results)}
            /\ \A r \in RunIds : \A y \in YearSet :
                  req'[r][y].outcome = "pending" => req[r][y].outcome = "pending"
      ]_vars

\* a run in which one card has failed, one has succeeded and one is loading
C6_Witness ==
    /\ runCount > 0 /\ Len(results) = Len(Years)
    /\ results[1].status = "error"
    /\ results[2].status = "success"
    /\ results[3].status = "loading"

\* C7: a trigger that starts a run resets all five cards to 'loading', with
\* all five requests of the new run in flight, and every settlement that
\* changes results belongs to the latest run.
C7_RetriggerResets ==
    /\ [][runCount' # runCount =>
            /\ runCount' = runCount + 1
            /\ Len(results') = Len(Years)
            /\ \A i \in 1..Len(Years) :
                  /\ results'[i] = [year |-> Years[i], status |-> "loading", imageUrl |-> Null]
                  /\ view'.timeline[i].status = "loading"
                  /\ req'[runCount'][Years[i]].outcome = "pending"
         ]_vars
    /\ [][\A r \in RunIds : \A y \in YearSet :
            (Pending(r, y) /\ req'[r][y].outcome # "pending" /\ results' # results)
                => r = runCount
         ]_vars

\* the second run has just been triggered: all cards are loading again
C7_Witness ==
    /\ runCount = 2
    /\ Len(results) = Len(Years)
    /\ \A i \in 1..Len(Years) : results[i].status = "loading"
    /\ \A y \in YearSet : Pending(2, y)

RunsInFlight == {r \in RunIds : \E y \in YearSet : Pending(r, y)}

\* C8: at most one run has requests in flight, and whenever a request is in
\* flight or a card is 'loading', isLoading is true and the button disabled.
C8_SingleRunInFlight ==
    /\ Cardinality(RunsInFlight) <= 1
    /\ (RunsInFlight # {} \/ \E i \in 1..Len(results) : results[i].status = "loading")
          => (isLoading /\ view.buttonDisabled)

\* a second run in flight after a resize, with loading cards
C8_Witness ==
    /\ RunsInFlight = {2}
    /\ ~listeners
    /\ results[1].status = "loading"
    /\ isLoading /\ view.buttonDisabled

----------------------------------------------------------------------------
(* Properties of the preview object URL *)

RevokedSet == {revoked[i] : i \in 1..Len(revoked)}

LiveUrls == (1..urlCount) \ RevokedSet

\* C9: every object URL is revoked at most once; a revocation happens only in
\* the onload step of an upload, which creates the URL that replaces the
\* revoked one; the URL held in uploadedImage is not revoked; at most one
\* unrevoked URL exists.
C9_PreviewUrlLifecycle ==
    /\ [](/\ \A i, j \in 1..Len(revoked) : revoked[i] = revoked[j] => i = j
          /\ uploadedImage # Null => uploadedImage[1].objectURL \in LiveUrls
          /\ Cardinality(LiveUrls) <= 1)
    /\ [][revoked' # revoked =>
            /\ uploadedImage # Null
            /\ revoked' = Append(revoked, uploadedImage[1].objectURL)
            /\ \E f \in Files : reading[f] > 0 /\ reading'[f] = reading[f] - 1
            /\ urlCount' = urlCount + 1
            /\ uploadedImage'[1].objectURL = urlCount'
            /\ uploadedImage'[1].objectURL # uploadedImage[1].objectURL
         ]_vars

\* a second upload has replaced the first: URL 1 revoked, URL 2 held
C9_Witness ==
    /\ revoked = <<1>>
    /\ urlCount = 2
    /\ uploadedImage # Null
    /\ uploadedImage[1].objectURL = 2

----------------------------------------------------------------------------
(* Properties of the prompt builder *)

\* the lifestyle text the specification prescribes, for each of the eight
\* combinations of factors above 5
ExpectedLifestyleText(smoking, sun, stress) ==
    CASE  smoking /\  sun /\  stress -> <<"a history of smoking", ", ", "significant sun exposure", ", ", "high levels of stress">>
      []  smoking /\  sun /\ ~stress -> <<"a history of smoking", ", ", "significant sun exposure">>
      []  smoking /\ ~sun /\  stress -> <<"a history of smoking", ", ", "high levels of stress">>
      []  smoking /\ ~sun /\ ~stress -> <<"a history of smoking">>
      [] ~smoking /\  sun /\  stress -> <<"significant sun exposure", ", ", "high levels of stress">>
      [] ~smoking /\  sun /\ ~stress -> <<"significant sun exposure">>
      [] ~smoking /\ ~sun /\  stress -> <<"high levels of stress">>
      [] ~smoking /\ ~sun /\ ~stress -> <<"a healthy lifestyle">>

Tokens(text) == {text[i] : i \in 1..Len(text)}

\* C10: for every year and all factor values in 0..10, the lifestyle text of
\* the prompt sent for that year is the clauses of the factors of value 6 or
\* more, in the order smoking, sun exposure, stress, joined by ', '; it is
\* 'a healthy lifestyle', without any of the three clauses, when there is no
\* such factor; and the prompt names its year.
C10_PromptClauses ==
    \A r \in RunIds : \A y \in YearSet :
        req[r][y].outcome # "none" =>
            LET text == LifestyleTextOf(req[r][y].prompt)
                f    == lifestyleFactors
            IN /\ req[r][y].prompt[2] = y
               /\ text = ExpectedLifestyleText(f.smoking \in 6..10, f.sunExposure \in 6..10,
                                               f.stress \in 6..10)
               /\ (\A k \in FactorKeys : f[k] \in 0..5) =>
                     /\ text = <<"a healthy lifestyle">>
                     /\ Tokens(text) \cap
                            {"a history of smoking", "significant sun exposure",
                             "high levels of stress"} = {}

\* a run whose prompts were built with smoking at 5, sun exposure at 6 and
\* stress at 10: two clauses, none for smoking
C10_Witness ==
    /\ runCount = 1
    /\ lifestyleFactors = [smoking |-> 5, sunExposure |-> 6, stress |-> 10]
    /\ LifestyleTextOf(req[1][2070].prompt) =
            <<"significant sun exposure", ", ", "high levels of stress">>

----------------------------------------------------------------------------
(* Properties of the requests of a run *)

FiveYears == {2030, 2040, 2050, 2060, 2070}

\* the requests that this step issues: a request exists after it that did not before
IssuedInStep(r, y) == req[r][y].outcome # "pending" /\ req'[r][y].outcome = "pending"

\* C11: a run that passes validation issues exactly five requests, one for each
\* of the years 2030, 2040, 2050, 2060 and 2070, all in the step that starts the
\* run; no other step issues a request, so no year of a run is requested a
\* second time, whether its first request returned an image, nothing, or threw.
C11_FiveRequestsPerRun ==
    [][ /\ runCount' # runCount =>
              /\ runCount' = runCount + 1
              /\ DOMAIN req'[runCount'] = FiveYears
              /\ \A y \in FiveYears :
                    /\ req[runCount'][y].outcome = "none"
                    /\ IssuedInStep(runCount', y)
                    /\ req'[runCount'][y].image # Null
        /\ \A r \in RunIds : \A y \in DOMAIN req[r] :
              /\ IssuedInStep(r, y) => (runCount' = runCount + 1 /\ r = runCount')
              /\ req[r][y].outcome \in {"image", "failed"} =>
                    req'[r][y].outcome \in {req[r][y].outcome, "none"}
              /\ r > runCount' => req'[r][y].outcome = "none"
      ]_vars

\* the first run has had one request fail, one succeed, and three are pending
C11_Witness ==
    /\ runCount = 1
    /\ req[1][2030].outcome = "failed"
    /\ req[1][2040].outcome = "image"
    /\ \A y \in {2050, 2060, 2070} : req[1][y].outcome = "pending"

----------------------------------------------------------------------------
(* Properties of the download name *)

\* the bytes that a card's image was generated from: those sent in its request
SentBytes(src) == src[2][2]

\* <originalBaseName>_<year>.png for the file with these bytes
NameFor(bytes, year) ==
    LET f == CHOOSE g \in Files : g.bytes = bytes
    IN BaseName(f.name) \o <<"_", year, ".png">>

\* C12: every successful card in the timeline of the second variant offers its
\* image under <originalBaseName>_<year>.png, where originalBaseName is the base
\* name of the file whose bytes were sent in the request that produced the card.
C12_DownloadNameOfSentFile ==
    page.timelineFilled =>
        \A i \in 1..Len(placeholderElements) :
            placeholderElements[i].status = "success" =>
                placeholderElements[i].download =
                    NameFor(SentBytes(placeholderElements[i].src), placeholderElements[i].year)

\* the same statement for the first variant, whose updateUI takes the name from
\* the uploadedImage record at every rendering
C12_FirstVariantDownloadName ==
    \A i \in 1..Len(view.timeline) :
        view.timeline[i].status = "success" =>
            view.timeline[i].download =
                NameFor(SentBytes(view.timeline[i].src), view.timeline[i].year)

----------------------------------------------------------------------------
(* Properties of the image request client *)

\* the positions of the parts that carry an inline image
InlinePositions(parts) == {i \in 1..Len(parts) : parts[i].inlineData # Null}

\* C13: a call of generateSingleImage consumes one answer of the API; when the
\* call throws, the returned promise is rejected with the error thrown; when it
\* answers, the promise is fulfilled with the data of the part of lowest
\* position that carries an inline image, and with null when no part does.
C13_FirstInlineImage ==
    lastCall.called =>
        LET out    == lastCall.out[1]
            result == lastCall.result[1]
            pos    == InlinePositions(out.parts)
        IN IF out.throws
           THEN result.state = "rejected" /\ result.value = <<out.error>>
           ELSE /\ result.state = "fulfilled"
                /\ pos = {} => result.value = Null
                /\ pos # {} =>
                      LET first == CHOOSE i \in pos : \A j \in pos : i <= j
                      IN result.value = <<out.parts[first].inlineData[1].data>>

\* an answer whose first part is text and whose next two parts carry different images
C13_Witness ==
    /\ lastCall.called
    /\ ~lastCall.out[1].throws
    /\ lastCall.out[1].parts = <<TextPart, ImagePart("imageB"), ImagePart("imageA")>>
    /\ lastCall.result[1] = [state |-> "fulfilled", value |-> <<"imageB">>]

----------------------------------------------------------------------------
(* Termination of a run *)

NoLoadingCard == \A i \in 1..Len(results) : results[i].status # "loading"

\* C14: when every dispatched request eventually settles, every run that was
\* started eventually completes: a state follows in which isLoading is false,
\* the trigger is enabled and no card has status 'loading'.
C14_RunsComplete ==
    isLoading ~> (~isLoading /\ ~view.buttonDisabled /\ NoLoadingCard)

\* the second run has completed with a failed year, after the first completed
C14_Witness ==
    /\ runCount = 2
    /\ join[2] = "done"
    /\ req[2][2060].outcome = "failed"
    /\ ~isLoading /\ ~view.buttonDisabled /\ NoLoadingCard
    /\ Len(results) = Len(Years)

----------------------------------------------------------------------------
(* Properties of the cards *)

\* C15: a card carries image data exactly if its status is 'success', and a
\* card is 'success' only if its year's request returned image data, which is
\* then what the card carries: a request that returned nothing or threw never
\* yields a 'success' card, and 'loading' and 'error' cards carry no image.
C15_ImageIffSuccess ==
    \A i \in 1..Len(results) :
        LET card == results[i]
        IN /\ (card.imageUrl # Null) <=> (card.status = "success")
           /\ card.status = "success" =>
                 /\ req[runCount][card.year].outcome = "image"
                 /\ card.imageUrl =
                       ImageUrl(GeneratedImage(req[runCount][card.year], card.year))
           /\ req[runCount][card.year].outcome = "failed" => card.status = "error"

\* one card with its image, one failed and one still loading
C15_Witness ==
    /\ Len(results) = Len(Years)
    /\ results[1].status = "success" /\ results[1].imageUrl # Null
    /\ results[2].status = "error" /\ results[2].imageUrl = Null
    /\ results[3].status = "loading" /\ results[3].imageUrl = Null

\* the same statement for the cards of the second variant
C15_SecondVariantImageIffSuccess ==
    \A i \in 1..Len(placeholderElements) :
        LET card == placeholderElements[i]
        IN /\ (card.src # Null) <=> (card.status = "success")
           /\ card.status = "success" => req[runCount][card.year].outcome = "image"
           /\ req[runCount][card.year].outcome = "failed" => card.status = "error"

----------------------------------------------------------------------------
(* Frame of a settlement *)

\* the cards of the years other than y, in order
OtherCards(res, y) == SelectSeq(res, LAMBDA card : card.year # y)

\* this settlement is the one that fulfils the join of its run, so that the
\* finally of handleGenerate runs in the same task, after the year's handler
SettlesJoin(r) == join[r] = "awaiting" /\ join'[r] = "done"

\* C16: the settlement of the request of year Y, whatever its outcome, leaves
\* the cards of the other years (their number, order, status and image), the
\* uploaded image, the lifestyle factors and errorMessage as they were, and
\* changes nothing of the card of Y but its status and image; isLoading is as
\* it was after the year's handler, and is cleared in the same task only by the
\* finally of handleGenerate when this settlement is the last of its run.
C16_SettlementFrame ==
    [][\A r \in RunIds : \A y \in YearSet : \A out \in Outcomes(req[r][y], y) :
          Settle(r, y, out) =>
              /\ OtherCards(results', y) = OtherCards(results, y)
              /\ Len(results') = Len(results)
              /\ \A i \in 1..Len(results) : results'[i].year = results[i].year
              /\ uploadedImage' = uploadedImage
              /\ lifestyleFactors' = lifestyleFactors
              /\ errorMessage' = errorMessage
              /\ isLoading' = (isLoading /\ ~SettlesJoin(r))
              /\ \A k \in RunIds : \A z \in YearSet :
                    (k # r \/ z # y) => req'[k][z] = req[k][z]
      ]_vars

\* the request of 2050 has settled first: its card alone has left 'loading'
C16_Witness ==
    /\ runCount = 1 /\ isLoading
    /\ Len(results) = Len(Years)
    /\ results[3].status = "success"
    /\ \A i \in {1, 2, 4, 5} : results[i].status = "loading"
    /\ \A y \in YearSet \ {2050} : req[1][y].outcome = "pending"

----------------------------------------------------------------------------
(* What a run sends *)

\* the lifestyle text that the specification prescribes for these factors
LifestyleTextFor(factors) ==
    ExpectedLifestyleText(factors.smoking > 5, factors.sunExposure > 5, factors.stress > 5)

\* C17: the five requests of a run carry the uploaded image and the prompt of
\* the lifestyle factors that are current in the step that starts the run, and
\* no later step (slider movement, file selection, completed upload, resize)
\* changes the prompt or the image of a request in flight.
C17_SentAsOfTrigger ==
    [][ /\ runCount' # runCount =>
              \A y \in YearSet :
                  /\ req'[runCount'][y].outcome = "pending"
                  /\ req'[runCount'][y].image = uploadedImage
                  /\ req'[runCount'][y].prompt[2] = y
                  /\ LifestyleTextOf(req'[runCount'][y].prompt) =
                        LifestyleTextFor(lifestyleFactors)
        /\ \A r \in RunIds : \A y \in YearSet :
              req[r][y].outcome = "pending" =>
                  /\ req'[r][y].prompt = req[r][y].prompt
                  /\ req'[r][y].image = req[r][y].image
      ]_vars

\* requests in flight that were sent another image and another lifestyle text
\* than the state now holds
C17_Witness ==
    /\ runCount = 1
    /\ \A y \in YearSet :
          /\ req[1][y].outcome = "pending"
          /\ req[1][y].image # uploadedImage
          /\ LifestyleTextOf(req[1][y].prompt) # LifestyleTextFor(lifestyleFactors)

----------------------------------------------------------------------------
(* Resize *)

\* C18: a window resize leaves uploadedImage, results, lifestyleFactors,
\* isLoading and errorMessage as they were, also while requests of a run are in
\* flight, whose requests and join it leaves alone; the rebuilt view shows that
\* same state.
C18_ResizeKeepsState ==
    [][Resize =>
          /\ uploadedImage' = uploadedImage
          /\ results' = results
          /\ lifestyleFactors' = lifestyleFactors
          /\ isLoading' = isLoading
          /\ errorMessage' = errorMessage
          /\ req' = req /\ join' = join
          /\ view' = Render(uploadedImage, isLoading, results, errorMessage)
      ]_vars

\* the window was resized during a run: a card is filled in, requests are pending
C18_Witness ==
    /\ ~listeners
    /\ uploadedImage # Null
    /\ isLoading /\ runCount = 1
    /\ req[1][2030].outcome = "image" /\ req[1][2040].outcome = "pending"
    /\ Len(results) = Len(Years) /\ results[1].status = "success"
    /\ view.timeline[1].status = "success"

----------------------------------------------------------------------------
(* The controls after a resize *)

\* C19: in every state, so also after a resize, the controls work: with an
\* image uploaded and no run in progress a click on the generate button is
\* handled by handleGenerate, and while the drop zone is shown the selection or
\* drop of a file is handled by handleFile.
C19_ControlsWork ==
    /\ (uploadedImage # Null /\ ~isLoading) => CanClickGenerate
    /\ ~view.dropZoneHidden => CanSelectFile

\* C20: in every state, so also after a resize, each slider shows the value of
\* its field of lifestyleFactors, and every movement of a slider sets its own
\* field of lifestyleFactors to the value chosen and leaves the other two alone.
C20_SlidersShowFactors ==
    /\ [](\A k \in FactorKeys : ParseInt(sliders[k]) = lifestyleFactors[k])
    /\ [][\A k \in FactorKeys : \A v \in SliderInputs :
              SliderMove(k, v) =>
                  lifestyleFactors' = [lifestyleFactors EXCEPT ![k] = v]]_vars

----------------------------------------------------------------------------
(* The held image and the file it came from *)

\* bytes, MIME type and base name are those of one file
FromOneFile(bytes, mimeType, fileName) ==
    \E f \in Files :
        /\ f.bytes = bytes
        /\ f.type = mimeType
        /\ BaseName(f.name) = fileName

\* C21: in the second variant, once image bytes are held, uploadedImageBase64,
\* originalMimeType and originalFileName come from the same file, and every
\* request sends bytes together with the MIME type of the file they were read
\* from.
C21_HeldImageFromOneFile ==
    /\ uploadedImageBase64 # Null =>
          FromOneFile(uploadedImageBase64[1], originalMimeType, originalFileName)
    /\ \A r \in RunIds : \A y \in YearSet :
          req[r][y].outcome # "none" =>
              \E f \in Files :
                  /\ f.bytes = req[r][y].image[1].base64
                  /\ f.type = req[r][y].image[1].mimeType

\* the same statement for the first variant, whose reader.onload builds the
\* uploadedImage record from the constants of its own call of handleFile
C21_FirstVariantFromOneFile ==
    /\ uploadedImage # Null =>
          FromOneFile(uploadedImage[1].base64, uploadedImage[1].mimeType,
                      uploadedImage[1].fileName)
    /\ \A r \in RunIds : \A y \in YearSet :
          req[r][y].outcome # "none" =>
              \E f \in Files :
                  /\ f.bytes = req[r][y].image[1].base64
                  /\ f.type = req[r][y].image[1].mimeType

----------------------------------------------------------------------------
(* Several selections in a row *)

AllReadsComplete == \A f \in Files : reading[f] = 0

\* C22: once every read that was started has completed, the uploaded image,
\* bytes and preview, is that of the file selected last.
C22_LastSelectedWins ==
    (AllReadsComplete /\ lastSelected # Null) =>
        /\ uploadedImage # Null
        /\ uploadedImage[1].base64 = lastSelected[1].bytes
        /\ uploadedImage[1].objectURL = urlCount
        /\ view.previewSrc = uploadedImage[1].objectURL

\* the same statement for the second variant
C22_SecondVariantLastSelectedWins ==
    (AllReadsComplete /\ lastSelected # Null) =>
        /\ uploadedImageBase64 = <<lastSelected[1].bytes>>
        /\ page.previewSrc = <<ReadAsDataURL(lastSelected[1])>>

----------------------------------------------------------------------------
(* The cards and the held image *)

\* C23: every 'success' card of results was generated from the image now held
\* in uploadedImage: its request was sent that very upload and its image data
\* derive from those bytes. After an upload has completed during or after a
\* run, results is empty until the next trigger, and a settlement that finds no
\* card for its year changes neither results nor the view.
C23_CardsOfHeldImage ==
    /\ [](/\ \A i \in 1..Len(results) :
                results[i].status = "success" =>
                    /\ uploadedImage # Null
                    /\ req[runCount][results[i].year].image = uploadedImage
                    /\ SentBytes(results[i].imageUrl) = uploadedImage[1].base64
          /\ uploadSinceRun => results = <<>>)
    /\ [][ /\ \A f \in Files : ReadComplete(f) => results' = <<>>
           /\ \A r \in RunIds : \A y \in YearSet : \A out \in Outcomes(req[r][y], y) :
                 (Settle(r, y, out) /\ FindIndex(results, y) = 0) =>
                     /\ results' = results
                     /\ view'.timeline = view.timeline
         ]_vars

\* an upload completed during the first run: the run has finished, a request
\* sent the previous image returned an image, and no card is shown
C23_Witness ==
    /\ runCount = 1 /\ uploadSinceRun
    /\ RunSettled(1) /\ ~isLoading
    /\ req[1][2030].outcome = "image"
    /\ req[1][2030].image # uploadedImage
    /\ results = <<>>
    /\ view.timeline = <<>>

====
